---- MODULE Spec2Model ----
(***************************************************************************)
(* Model of src/nonlinear_solvers/solvers.py: newton_raphson, bisection,   *)
(* solve and check_sign.                                                   *)
(*                                                                         *)
(* Numbers.  The solvers compute on Python floats.  The model computes on  *)
(* exact rationals <<n, d>> (d > 0, lowest terms).  The caller inputs      *)
(* below are chosen so that every number the solvers produce is a dyadic   *)
(* rational with a short numerator (the invariant Dyadic), and on such     *)
(* numbers binary64 addition, subtraction, multiplication, division by a   *)
(* power of two and comparison are exact: on these inputs the rational     *)
(* result IS the float result.                                             *)
(*                                                                         *)
(* Calls.  Two calls (Calls = {1, 2}) receive the same numerical           *)
(* arguments and run interleaved, one loop iteration per step.  Each call  *)
(* has its own frames (nr[c], bis[c]), as each Python call has its own     *)
(* locals.                                                                 *)
(***************************************************************************)
EXTENDS Integers, Sequences, FiniteSets, TLC

VARIABLES args, op, pc, nr, bis, out

vars == <<args, op, pc, nr, bis, out>>

(* Largest iteration budget (max_its, max_its_n, max_its_b) a caller passes. *)
MaxIts == 2

Calls == {1, 2}

----------------------------------------------------------------------------
(* Exact arithmetic standing for Python's float operators.  The operations  *)
(* are functions, so that an argument is evaluated once, before the call.   *)

GCD[a \in Nat, b \in Nat] == IF b = 0 THEN a ELSE GCD[b, a % b]

IAbs(n) == IF n < 0 THEN -n ELSE n

Rat[n \in Int, d \in Int] ==
    LET s == IF d < 0 THEN -1 ELSE 1
        g == GCD[IAbs(n), IAbs(d)]
    IN  <<(s * n) \div g, (s * d) \div g>>

Num(n) == <<n, 1>>

Q == Int \X Int

RAdd[a \in Q, b \in Q] == Rat[a[1] * b[2] + b[1] * a[2], a[2] * b[2]]

RSub[a \in Q, b \in Q] == Rat[a[1] * b[2] - b[1] * a[2], a[2] * b[2]]

RMul[a \in Q, b \in Q] == Rat[a[1] * b[1], a[2] * b[2]]

(* a / b for b # 0; Python raises ZeroDivisionError for b = 0 (see the     *)
(* "fault" branch of NewtonBranch).                                        *)
RDiv[a \in Q, b \in Q] == Rat[a[1] * b[2], a[2] * b[1]]

RAbs[a \in Q] == <<IAbs(a[1]), a[2]>>

RLess[a \in Q, b \in Q] == a[1] * b[2] < b[1] * a[2]

IsZero[a \in Q] == a[1] = 0

(* The value of a local that has not been assigned yet. *)
Unbound == <<0, 0>>

----------------------------------------------------------------------------
(* Caller inputs.  A function is a polynomial with integer coefficients,   *)
(* lowest degree first.                                                    *)

Horner[p \in Seq(Int), i \in Nat, x \in Q] ==
    IF i = Len(p) THEN Num(p[i])
    ELSE RAdd[Num(p[i]), RMul[x, Horner[p, i + 1, x]]]

Eval(p, x) == Horner[p, 1, x]

(* f and df as the caller passes them:                                     *)
(*   line      f(x) = x - 1,         df(x) = 1      (the derivative)       *)
(*   damped    f(x) = x - 1,         df(x) = 2      (a wrong derivative)   *)
(*   chord     f(x) = x^2 - 2,       df(x) = 1      (a wrong derivative)   *)
(*   noroot    f(x) = x^2 - 2x + 2,  df(x) = 2x - 2 (the derivative)       *)
Fns ==
    { [f |-> <<-1, 1>>,    df |-> <<1>>],
      [f |-> <<-1, 1>>,    df |-> <<2>>],
      [f |-> <<-2, 0, 1>>, df |-> <<1>>],
      [f |-> <<2, -2, 1>>, df |-> <<-2, 2>>] }

X0s == {Num(0), Num(1), Num(2)}

X1s == {Num(-2), Num(1), Num(4)}

EpsSet == {<<1, 2>>, <<1, 8>>}

(* The operations of call 1 and call 2. *)
OpPairs ==
    { <<"newton_raphson", "newton_raphson">>, <<"bisection", "bisection">>,
      <<"solve", "solve">>, <<"solve", "bisection">> }

f(x) == Eval(args.fn.f, x)

df(x) == Eval(args.fn.df, x)

----------------------------------------------------------------------------
(* Outcomes of a call or of a stage. *)

NoOutcome == [kind |-> "none", value |-> Unbound]

Returned(v) == [kind |-> "value", value |-> v]

Raised(e) == [kind |-> e, value |-> Unbound]

----------------------------------------------------------------------------
(* check_sign *)

check_sign(number) ==
    IF number[1] < 0 THEN "Negative"
    ELSE IF number[1] > 0 THEN "Positive"
    ELSE "Zero"

----------------------------------------------------------------------------
(* newton_raphson *)

Converged_Le(x, eps) == ~ RLess[eps, RAbs[f(x)]]

(* abs(f(x)) < eps *)
Converged(x, eps) == RLess[RAbs[f(x)], eps]

(* x_next = x_0 - f(x_0)/df(x_0) *)
XNext(fr) == RSub[fr.x_0, RDiv[f(fr.x_0), df(fr.x_0)]]

NewtonCounterInit_Leftover(c) == nr[3 - c].counter

(* counter = 0 *)
NewtonCounterInit(c) == 0

NewtonEntry(c, x_0, eps, max_its) ==
    [x_0 |-> x_0, eps |-> eps, max_its |-> max_its,
     counter |-> NewtonCounterInit(c), x_next |-> Unbound,
     updates |-> 0, out |-> NoOutcome]

NewtonBranch_BudgetAfterIncrement(fr) ==
    IF IsZero[df(fr.x_0)] THEN "fault"
    ELSE IF Converged(XNext(fr), fr.eps) THEN "return"
    ELSE IF fr.counter + 1 >= fr.max_its THEN "raise"
    ELSE "advance"

NewtonBranch_OneMore(fr) ==
    IF IsZero[df(fr.x_0)] THEN "fault"
    ELSE IF Converged(XNext(fr), fr.eps) THEN "return"
    ELSE IF fr.counter = fr.max_its + 1 THEN "raise"
    ELSE "advance"

(* The branch one pass through the loop body takes. *)
NewtonBranch(fr) ==
    IF IsZero[df(fr.x_0)] THEN "fault"
    ELSE IF Converged(XNext(fr), fr.eps) THEN "return"
    ELSE IF fr.counter = fr.max_its THEN "raise"
    ELSE "advance"

----------------------------------------------------------------------------
(* bisection *)

(* x_star = (x_0 + x_1) / 2.0 *)
XStar(fr) == RDiv[RAdd[fr.x_0, fr.x_1], Num(2)]

(* counter = 0 *)
BisectionCounterInit(c) == 0

BisectionEntry(c, x_0, x_1, eps, max_its) ==
    [x_0 |-> x_0, x_1 |-> x_1, eps |-> eps, max_its |-> max_its,
     counter |-> BisectionCounterInit(c), x_star |-> Unbound,
     midpoints |-> 0, out |-> NoOutcome]

BisectionBranch_BudgetFirst(fr) ==
    IF check_sign(f(fr.x_0)) = check_sign(f(fr.x_1)) THEN "invalid"
    ELSE IF fr.counter = fr.max_its THEN "raise"
    ELSE IF Converged(XStar(fr), fr.eps) THEN "return"
    ELSE IF check_sign(f(XStar(fr))) = check_sign(f(fr.x_1)) THEN "x_1"
    ELSE "x_0"

BisectionBranch_ToleranceFirst(fr) ==
    IF Converged(XStar(fr), fr.eps) THEN "return"
    ELSE IF check_sign(f(fr.x_0)) = check_sign(f(fr.x_1)) THEN "invalid"
    ELSE IF fr.counter = fr.max_its THEN "raise"
    ELSE IF check_sign(f(XStar(fr))) = check_sign(f(fr.x_1)) THEN "x_1"
    ELSE "x_0"

BisectionBranch_CompareX0(fr) ==
    IF check_sign(f(fr.x_0)) = check_sign(f(fr.x_1)) THEN "invalid"
    ELSE IF Converged(XStar(fr), fr.eps) THEN "return"
    ELSE IF fr.counter = fr.max_its THEN "raise"
    ELSE IF check_sign(f(XStar(fr))) = check_sign(f(fr.x_0)) THEN "x_1"
    ELSE "x_0"

(* The branch one pass through the loop body takes. *)
BisectionBranch(fr) ==
    IF check_sign(f(fr.x_0)) = check_sign(f(fr.x_1)) THEN "invalid"
    ELSE IF Converged(XStar(fr), fr.eps) THEN "return"
    ELSE IF fr.counter = fr.max_its THEN "raise"
    ELSE IF check_sign(f(XStar(fr))) = check_sign(f(fr.x_1)) THEN "x_1"
    ELSE "x_0"

(* x_1 = x_star *)
MoveX1(fr) == [fr EXCEPT !.x_1 = XStar(fr)]

MoveX0_CopyPaste(fr) == [fr EXCEPT !.x_1 = XStar(fr)]

(* x_0=x_star *)
MoveX0(fr) == [fr EXCEPT !.x_0 = XStar(fr)]

----------------------------------------------------------------------------
(* solve *)

SolveCatches_Any(kind) == kind # "value"

(* except ConvergenceError *)
SolveCatches(kind) == kind = "ConvergenceError"

SolveFallbackX0_LastIterate(c) == nr[c].x_0

(* the x_0 solve passes to bisection: its own parameter *)
SolveFallbackX0(c) == args.x_0

----------------------------------------------------------------------------
(* State *)

IdleNewton == [x_0 |-> Unbound, eps |-> Unbound, max_its |-> 0, counter |-> 0,
               x_next |-> Unbound, updates |-> 0, out |-> NoOutcome]

IdleBisection == [x_0 |-> Unbound, x_1 |-> Unbound, eps |-> Unbound,
                  max_its |-> 0, counter |-> 0, x_star |-> Unbound,
                  midpoints |-> 0, out |-> NoOutcome]

Init ==
    /\ args \in [fn : Fns, x_0 : X0s, x_1 : X1s, eps : EpsSet,
                 max_its_n : 0..MaxIts, max_its_b : 0..MaxIts]
    /\ op \in {[c \in Calls |-> p[c]] : p \in OpPairs}
    (* a budget that no call reads is passed as 0 *)
    /\ (\A c \in Calls : op[c] = "bisection") => args.max_its_n = 0
    /\ (\A c \in Calls : op[c] = "newton_raphson") => args.max_its_b = 0
    /\ pc = [c \in Calls |-> "call"]
    /\ nr = [c \in Calls |-> IdleNewton]
    /\ bis = [c \in Calls |-> IdleBisection]
    /\ out = [c \in Calls |-> NoOutcome]

(* A stage ends with outcome o: the call ends with it, or, inside solve's  *)
(* try block, control goes to solve.                                       *)
NewtonEnds(c, o) ==
    IF op[c] = "solve"
    THEN /\ pc' = [pc EXCEPT ![c] = "solve_try"]
         /\ out' = out
    ELSE /\ pc' = [pc EXCEPT ![c] = "done"]
         /\ out' = [out EXCEPT ![c] = o]

(* bisection's outcome is the call's: solve returns it or lets it propagate *)
BisectionEnds(c, o) ==
    /\ pc' = [pc EXCEPT ![c] = "done"]
    /\ out' = [out EXCEPT ![c] = o]

Call_newton_raphson(c) ==
    /\ pc[c] = "call"
    /\ op[c] = "newton_raphson"
    /\ nr' = [nr EXCEPT ![c] = NewtonEntry(c, args.x_0, args.eps, args.max_its_n)]
    /\ pc' = [pc EXCEPT ![c] = "newton_raphson"]
    /\ UNCHANGED <<args, op, bis, out>>

Call_bisection(c) ==
    /\ pc[c] = "call"
    /\ op[c] = "bisection"
    /\ bis' = [bis EXCEPT ![c] =
                  BisectionEntry(c, args.x_0, args.x_1, args.eps, args.max_its_b)]
    /\ pc' = [pc EXCEPT ![c] = "bisection"]
    /\ UNCHANGED <<args, op, nr, out>>

Call_solve(c) ==
    /\ pc[c] = "call"
    /\ op[c] = "solve"
    /\ nr' = [nr EXCEPT ![c] = NewtonEntry(c, args.x_0, args.eps, args.max_its_n)]
    /\ pc' = [pc EXCEPT ![c] = "newton_raphson"]
    /\ UNCHANGED <<args, op, bis, out>>

Newton_Fault(c) ==
    /\ pc[c] = "newton_raphson"
    /\ NewtonBranch(nr[c]) = "fault"
    /\ nr' = [nr EXCEPT ![c].out = Raised("ZeroDivisionError")]
    /\ NewtonEnds(c, Raised("ZeroDivisionError"))
    /\ UNCHANGED <<args, op, bis>>

Newton_Return(c) ==
    /\ pc[c] = "newton_raphson"
    /\ NewtonBranch(nr[c]) = "return"
    /\ nr' = [nr EXCEPT ![c].x_next = XNext(nr[c]),
                        ![c].updates = @ + 1,
                        ![c].out = Returned(XNext(nr[c]))]
    /\ NewtonEnds(c, Returned(XNext(nr[c])))
    /\ UNCHANGED <<args, op, bis>>

Newton_Raise(c) ==
    /\ pc[c] = "newton_raphson"
    /\ NewtonBranch(nr[c]) = "raise"
    /\ nr' = [nr EXCEPT ![c].x_next = XNext(nr[c]),
                        ![c].updates = @ + 1,
                        ![c].out = Raised("ConvergenceError")]
    /\ NewtonEnds(c, Raised("ConvergenceError"))
    /\ UNCHANGED <<args, op, bis>>

Newton_Advance(c) ==
    /\ pc[c] = "newton_raphson"
    /\ NewtonBranch(nr[c]) = "advance"
    /\ nr' = [nr EXCEPT ![c].x_next = XNext(nr[c]),
                        ![c].updates = @ + 1,
                        ![c].x_0 = XNext(nr[c]),
                        ![c].counter = @ + 1]
    /\ UNCHANGED <<args, op, pc, bis, out>>

Bisection_Invalid(c) ==
    /\ pc[c] = "bisection"
    /\ BisectionBranch(bis[c]) = "invalid"
    /\ bis' = [bis EXCEPT ![c].out = Raised("ValueError")]
    /\ BisectionEnds(c, Raised("ValueError"))
    /\ UNCHANGED <<args, op, nr>>

Bisection_Return(c) ==
    /\ pc[c] = "bisection"
    /\ BisectionBranch(bis[c]) = "return"
    /\ bis' = [bis EXCEPT ![c].x_star = XStar(bis[c]),
                          ![c].midpoints = @ + 1,
                          ![c].out = Returned(XStar(bis[c]))]
    /\ BisectionEnds(c, Returned(XStar(bis[c])))
    /\ UNCHANGED <<args, op, nr>>

Bisection_Raise(c) ==
    /\ pc[c] = "bisection"
    /\ BisectionBranch(bis[c]) = "raise"
    /\ bis' = [bis EXCEPT ![c].x_star = XStar(bis[c]),
                          ![c].midpoints = @ + 1,
                          ![c].out = Raised("ConvergenceError")]
    /\ BisectionEnds(c, Raised("ConvergenceError"))
    /\ UNCHANGED <<args, op, nr>>

Bisection_MoveX1(c) ==
    /\ pc[c] = "bisection"
    /\ BisectionBranch(bis[c]) = "x_1"
    /\ bis' = [bis EXCEPT ![c] = [MoveX1(bis[c]) EXCEPT
                                     !.x_star = XStar(bis[c]),
                                     !.midpoints = @ + 1,
                                     !.counter = @ + 1]]
    /\ UNCHANGED <<args, op, pc, nr, out>>

Bisection_MoveX0(c) ==
    /\ pc[c] = "bisection"
    /\ BisectionBranch(bis[c]) = "x_0"
    /\ bis' = [bis EXCEPT ![c] = [MoveX0(bis[c]) EXCEPT
                                     !.x_star = XStar(bis[c]),
                                     !.midpoints = @ + 1,
                                     !.counter = @ + 1]]
    /\ UNCHANGED <<args, op, pc, nr, out>>

(* return newton_raphson(...) *)
Solve_Return(c) ==
    /\ pc[c] = "solve_try"
    /\ nr[c].out.kind = "value"
    /\ pc' = [pc EXCEPT ![c] = "done"]
    /\ out' = [out EXCEPT ![c] = nr[c].out]
    /\ UNCHANGED <<args, op, nr, bis>>

(* except ConvergenceError: return bisection(f, x_0, x_1, eps, max_its_b) *)
Solve_Fallback(c) ==
    /\ pc[c] = "solve_try"
    /\ nr[c].out.kind # "value"
    /\ SolveCatches(nr[c].out.kind)
    /\ bis' = [bis EXCEPT ![c] =
                  BisectionEntry(c, SolveFallbackX0(c), args.x_1, args.eps,
                                 args.max_its_b)]
    /\ pc' = [pc EXCEPT ![c] = "bisection"]
    /\ UNCHANGED <<args, op, nr, out>>

(* an exception the except clause does not name leaves solve *)
Solve_Propagate(c) ==
    /\ pc[c] = "solve_try"
    /\ nr[c].out.kind # "value"
    /\ ~ SolveCatches(nr[c].out.kind)
    /\ pc' = [pc EXCEPT ![c] = "done"]
    /\ out' = [out EXCEPT ![c] = nr[c].out]
    /\ UNCHANGED <<args, op, nr, bis>>

(* One step of call c. *)
Step(c) ==
    \/ Call_newton_raphson(c)
    \/ Call_bisection(c)
    \/ Call_solve(c)
    \/ Newton_Fault(c)
    \/ Newton_Return(c)
    \/ Newton_Raise(c)
    \/ Newton_Advance(c)
    \/ Bisection_Invalid(c)
    \/ Bisection_Return(c)
    \/ Bisection_Raise(c)
    \/ Bisection_MoveX1(c)
    \/ Bisection_MoveX0(c)
    \/ Solve_Return(c)
    \/ Solve_Fallback(c)
    \/ Solve_Propagate(c)

Next == \E c \in Calls : Step(c)

Spec == Init /\ [][Next]_vars

(* Every operation runs to completion on its calling thread, without       *)
(* yielding or blocking: a call that can take a step takes it.             *)
FairSpec == Spec /\ \A c \in Calls : WF_vars(Step(c))

----------------------------------------------------------------------------
(* Sanity of the number model: every number in the state is a dyadic       *)
(* rational with a numerator below 2^20, exactly representable in binary64. *)

IsPow2(d) == d \in {1, 2, 4, 8, 16, 32, 64, 128, 256, 512, 1024, 2048, 4096}

Short(x) == x = Unbound \/ (IsPow2(x[2]) /\ IAbs(x[1]) < 1048576)

Dyadic ==
    \A c \in Calls :
        /\ Short(nr[c].x_0) /\ Short(nr[c].x_next)
        /\ Short(bis[c].x_0) /\ Short(bis[c].x_1) /\ Short(bis[c].x_star)
        /\ (nr[c].x_0 # Unbound =>
                /\ Short(f(nr[c].x_0))
                /\ (IsZero[df(nr[c].x_0)] \/ IsPow2(IAbs(df(nr[c].x_0)[1]))))
        /\ (nr[c].x_next # Unbound => Short(f(nr[c].x_next)))
        /\ (bis[c].x_star # Unbound => Short(f(bis[c].x_star)))

----------------------------------------------------------------------------
(* Properties *)

NewtonStarted(c) == nr[c].x_0 # Unbound

BisectionStarted(c) == bis[c].x_0 # Unbound

(* |f(x)| < eps, written out on the arithmetic. *)
WithinTolerance(x, eps) ==
    LET y == Eval(args.fn.f, x)
    IN  IAbs(y[1]) * eps[2] < eps[1] * y[2]

SignClass(x) ==
    LET y == Eval(args.fn.f, x)
    IN  IF y[1] < 0 THEN "Negative" ELSE IF y[1] > 0 THEN "Positive" ELSE "Zero"

(* C1: a value returned by newton_raphson, bisection or solve satisfies     *)
(* |f(v)| < eps for the eps of the call, whichever stage produced it.       *)
C1_ReturnedValueWithinTolerance ==
    \A c \in Calls :
        /\ out[c].kind = "value" => WithinTolerance(out[c].value, args.eps)
        /\ nr[c].out.kind = "value" => WithinTolerance(nr[c].out.value, args.eps)
        /\ bis[c].out.kind = "value" => WithinTolerance(bis[c].out.value, args.eps)

(* solve returned a value that its bisection fallback found after moving an *)
(* endpoint.                                                                *)
C1_Witness ==
    \E c \in Calls :
        /\ op[c] = "solve" /\ pc[c] = "done" /\ out[c].kind = "value"
        /\ nr[c].out.kind = "ConvergenceError"
        /\ bis[c].counter >= 1

(* C2: in solve, bisection is started if and only if Newton-Raphson ended   *)
(* with ConvergenceError; a value returned by Newton-Raphson is solve's     *)
(* result, any other fault of Newton-Raphson is solve's fault, and in both  *)
(* cases bisection is never invoked.                                        *)
C2_FallbackIffConvergenceError ==
    \A c \in Calls :
        op[c] = "solve" =>
            /\ BisectionStarted(c) => nr[c].out.kind = "ConvergenceError"
            /\ (pc[c] = "done" /\ nr[c].out.kind = "ConvergenceError")
                   => BisectionStarted(c)
            /\ (pc[c] = "done" /\ nr[c].out.kind # "ConvergenceError")
                   => (out[c] = nr[c].out /\ bis[c] = IdleBisection)
            /\ pc[c] = "done" => nr[c].out.kind # "none"

(* solve ended with the division fault of its Newton-Raphson stage. *)
C2_Witness ==
    \E c \in Calls :
        /\ op[c] = "solve" /\ pc[c] = "done"
        /\ nr[c].out.kind = "ZeroDivisionError"
        /\ nr[c].counter >= 1
        /\ out[c].kind = "ZeroDivisionError"

(* C3: when the Newton-Raphson stage of solve fails with ConvergenceError,  *)
(* solve ends exactly as bisection(f, x_0, x_1, eps, max_its_b) called on   *)
(* the caller's x_0 and x_1 ends: same value or same error, after the same  *)
(* iterations.                                                              *)
C3_FallbackIsBisectionOnCallerBracket ==
    \A c, d \in Calls :
        ( /\ op[c] = "solve" /\ op[d] = "bisection"
          /\ pc[c] = "done" /\ pc[d] = "done"
          /\ nr[c].out.kind = "ConvergenceError" )
        => (out[c] = out[d] /\ bis[c] = bis[d])

(* The last Newton iterate differs from the caller's x_0 and the fallback   *)
(* returned a value.                                                        *)
C3_Witness ==
    \E c, d \in Calls :
        /\ op[c] = "solve" /\ op[d] = "bisection"
        /\ pc[c] = "done" /\ pc[d] = "done"
        /\ nr[c].out.kind = "ConvergenceError"
        /\ nr[c].x_0 # args.x_0
        /\ out[c].kind = "value"

(* C4: newton_raphson computes at least one and at most max_its + 1         *)
(* updates; a value it returns is an update, never the starting x_0         *)
(* untested; it raises ConvergenceError exactly when update number          *)
(* max_its + 1 has been computed and fails the tolerance.                   *)
C4_NewtonUpdateCount ==
    \A c \in Calls :
        NewtonStarted(c) =>
            LET fr == nr[c] IN
            /\ fr.max_its = args.max_its_n
            /\ fr.updates <= fr.max_its + 1
            /\ fr.out.kind \in {"value", "ConvergenceError"} => fr.updates >= 1
            /\ fr.out.kind = "value" => fr.out.value = fr.x_next
            /\ fr.out.kind = "ConvergenceError"
                   <=> ( /\ fr.updates = fr.max_its + 1
                         /\ ~ WithinTolerance(fr.x_next, fr.eps) )

(* The largest budget was used up: MaxIts + 1 updates, then ConvergenceError. *)
C4_Witness ==
    \E c \in Calls :
        /\ nr[c].out.kind = "ConvergenceError"
        /\ nr[c].max_its = MaxIts
        /\ nr[c].updates = MaxIts + 1

(* C5: bisection tests at most max_its + 1 midpoints, and the tolerance    *)
(* test comes before the budget test: the midpoint computed when the        *)
(* counter equals max_its is returned if it meets the tolerance, and        *)
(* ConvergenceError is raised only when it does not.                        *)
C5_BisectionMidpointCount ==
    \A c \in Calls :
        BisectionStarted(c) =>
            LET fr == bis[c] IN
            /\ fr.max_its = args.max_its_b
            /\ fr.midpoints <= fr.max_its + 1
            /\ fr.out.kind = "ConvergenceError"
                   <=> ( /\ fr.midpoints = fr.max_its + 1
                         /\ ~ WithinTolerance(fr.x_star, fr.eps) )
            /\ (fr.midpoints >= 1 /\ WithinTolerance(fr.x_star, fr.eps))
                   => fr.out = [kind |-> "value", value |-> fr.x_star]

(* The midpoint computed when the counter equals a budget >= 1 was returned. *)
C5_Witness ==
    \E c \in Calls :
        /\ bis[c].out.kind = "value"
        /\ bis[c].max_its >= 1
        /\ bis[c].counter = bis[c].max_its
        /\ bis[c].midpoints = bis[c].max_its + 1

(* C6: bisection called with endpoints of equal sign class ends with        *)
(* ValueError before any midpoint is computed, whatever eps and max_its.    *)
C6_EqualSignsValueError ==
    \A c \in Calls :
        (BisectionStarted(c) /\ SignClass(args.x_0) = SignClass(args.x_1)) =>
            /\ bis[c].midpoints = 0
            /\ bis[c].x_star = Unbound
            /\ bis[c].out.kind \in {"none", "ValueError"}
            /\ pc[c] = "done" <=> bis[c].out.kind = "ValueError"
            /\ pc[c] = "done" => out[c].kind = "ValueError"

(* Both endpoints are classified Zero, max_its is 0 and the midpoint would  *)
(* meet the tolerance; the call ended with ValueError.                      *)
C6_Witness ==
    \E c \in Calls :
        /\ pc[c] = "done" /\ out[c].kind = "ValueError"
        /\ bis[c].max_its = 0
        /\ SignClass(args.x_0) = "Zero" /\ SignClass(args.x_1) = "Zero"
        /\ WithinTolerance(<<args.x_0[1] + args.x_1[1], 2>>, args.eps)

(* C7: two calls of the same operation with identical arguments, run        *)
(* interleaved step by step, end with the identical outcome; each starts    *)
(* from the arguments and counter 0.                                        *)
C7_SameArgumentsSameOutcome ==
    /\ \A c, d \in Calls :
           (op[c] = op[d] /\ pc[c] = "done" /\ pc[d] = "done") => out[c] = out[d]
    /\ \A c \in Calls :
           /\ (NewtonStarted(c) /\ nr[c].updates = 0 /\ nr[c].out.kind = "none")
                  => (nr[c].counter = 0 /\ nr[c].x_0 = args.x_0)
           /\ (BisectionStarted(c) /\ bis[c].midpoints = 0)
                  => ( /\ bis[c].counter = 0
                       /\ bis[c].x_0 = args.x_0 /\ bis[c].x_1 = args.x_1 )

(* Both calls are solve, both went through the loops of both stages and     *)
(* both returned a value.                                                   *)
C7_Witness ==
    /\ op[1] = "solve" /\ op[2] = "solve"
    /\ pc[1] = "done" /\ pc[2] = "done"
    /\ nr[1].counter >= 1 /\ bis[1].counter >= 1
    /\ out[1].kind = "value" /\ out[2].kind = "value"

(* C8: a bisection iteration that neither returns nor fails replaces        *)
(* exactly one endpoint by the midpoint (x_1 when the sign class of         *)
(* f(x_star) equals that of f(x_1), otherwise x_0), leaves the other        *)
(* endpoint alone and adds exactly 1 to the counter.                        *)
C8_OneEndpointReplaced ==
    [][ \A c \in Calls :
          ( /\ BisectionStarted(c)
            /\ bis'[c] # bis[c]
            /\ bis'[c].out.kind = "none" )
          => LET fr == bis[c]
                 xs == Rat[fr.x_0[1] * fr.x_1[2] + fr.x_1[1] * fr.x_0[2],
                           2 * fr.x_0[2] * fr.x_1[2]]
             IN  /\ bis'[c].counter = fr.counter + 1
                 /\ bis'[c].x_star = xs
                 /\ bis'[c].eps = fr.eps /\ bis'[c].max_its = fr.max_its
                 /\ IF SignClass(xs) = SignClass(fr.x_1)
                    THEN bis'[c].x_1 = xs /\ bis'[c].x_0 = fr.x_0
                    ELSE bis'[c].x_0 = xs /\ bis'[c].x_1 = fr.x_1
      ]_vars

(* Both endpoints of a bracket have been replaced. *)
C8_Witness ==
    \E c \in Calls :
        /\ bis[c].counter >= 2
        /\ bis[c].x_0 # args.x_0
        /\ bis[c].x_1 # args.x_1

(* C9: after every endpoint update the endpoints have different sign        *)
(* classes, so ValueError is raised only in the first iteration, on the     *)
(* caller's own endpoints.                                                  *)
C9_BracketKeepsSignChange ==
    \A c \in Calls :
        BisectionStarted(c) =>
            /\ bis[c].counter >= 1 => SignClass(bis[c].x_0) # SignClass(bis[c].x_1)
            /\ bis[c].out.kind = "ValueError"
                   => ( /\ bis[c].counter = 0 /\ bis[c].midpoints = 0
                        /\ bis[c].x_0 = args.x_0 /\ bis[c].x_1 = args.x_1 )

(* A call passed the first sign check, updated endpoints twice and ended    *)
(* with ConvergenceError.                                                   *)
C9_Witness ==
    \E c \in Calls :
        /\ bis[c].counter >= 2
        /\ bis[c].out.kind = "ConvergenceError"

AllDone == \A c \in Calls : pc[c] = "done"

C10_Bounded ==
    \A c \in Calls :
        /\ nr[c].updates <= args.max_its_n + 1
        /\ bis[c].midpoints <= args.max_its_b + 1
        /\ nr[c].counter <= args.max_its_n
        /\ bis[c].counter <= args.max_its_b
        /\ nr[c].out.kind = "ConvergenceError" => nr[c].counter = args.max_its_n
        /\ bis[c].out.kind = "ConvergenceError" => bis[c].counter = args.max_its_b
        /\ (op[c] = "solve" /\ BisectionStarted(c)) => nr[c].out.kind # "none"

C10_CounterStep ==
    \A c \in Calls :
        /\ nr'[c].counter # nr[c].counter
               => (NewtonStarted(c) /\ nr'[c].counter = nr[c].counter + 1)
        /\ bis'[c].counter # bis[c].counter
               => (BisectionStarted(c) /\ bis'[c].counter = bis[c].counter + 1)

(* C10: every call ends, after at most max_its_n + 1 Newton updates         *)
(* followed by at most max_its_b + 1 bisection midpoints; each stage's      *)
(* counter goes up from 0 by 1 per iteration and ConvergenceError is raised *)
(* only when the counter equals the budget.                                 *)
C10_Terminates ==
    /\ <>AllDone
    /\ []C10_Bounded
    /\ [][C10_CounterStep]_vars

(* A solve call ended after using both largest budgets in full. *)
C10_Witness ==
    \E c \in Calls :
        /\ op[c] = "solve" /\ pc[c] = "done"
        /\ args.max_its_n = MaxIts /\ args.max_its_b = MaxIts
        /\ nr[c].updates = MaxIts + 1
        /\ bis[c].midpoints = MaxIts + 1

====
